---- MODULE Spec2Model ----
(***************************************************************************)
(* Model of gas-client (src/src/index.ts): the Server class that wraps     *)
(* google.script.run in Promises and, when the host global is missing in   *)
(* development, tunnels calls to the parent frame with postMessage.        *)
(*                                                                         *)
(* Strings that the code splits or compares character by character (the    *)
(* allow-list and the origins) are sequences of one-character strings.     *)
(* JavaScript values that the code only passes around are strings.         *)
(***************************************************************************)
EXTENDS Integers, Sequences, FiniteSets, TLC

VARIABLES
    host,        \* the global `google`: "undeclared", "noScript" (google.script undefined), "present"
    hostKeys,    \* Object.keys(google.script.run), in enumeration order
    nodeEnv,     \* process.env.NODE_ENV, or "undeclared" when `process` is not declared
    servers,     \* the Server objects constructed so far
    gasStoreSet, \* TRUE once window.gasStore has been assigned
    gasStore,    \* window.gasStore: id -> {resolve, reject}
    listeners,   \* 'message' listeners of window, in registration order (index of the owning Server)
    promises,    \* every Promise created by the library: state and value
    uuidCount,   \* number of identifiers uuidv4() has handed out
    callables,   \* functions returned by the Proxy's get trap
    posted,      \* messages passed to window.parent.postMessage, in order
    hostCalls,   \* calls made on google.script.run, in order
    lastEvent,   \* the operation that produced this state
    lastThrow,   \* the errors the last operation threw (one per throwing listener)
    allowCheck   \* one evaluation of checkAllowList on a string allow-list

vars == <<host, hostKeys, nodeEnv, servers, gasStoreSet, gasStore, listeners,
          promises, uuidCount, callables, posted, hostCalls, lastEvent,
          lastThrow, allowCheck>>

-----------------------------------------------------------------------------
(* Bounds *)

MaxServers == 2
MaxIds == 2
MaxPosts == 2
MaxHostCalls == 1
MaxStrLen == 4
MaxOriginLen == 2
\* operations (constructions, property reads, calls) in one run of the page
MaxOps == 4

-----------------------------------------------------------------------------
(* Values *)

ignoredFunctionNames ==
    <<"withFailureHandler", "withLogger", "withSuccessHandler", "withUserObject">>

GoogleNotDefined == "ReferenceError: google is not defined"
ProcessNotDefined == "ReferenceError: process is not defined"
ScriptTypeError == "TypeError: Cannot read properties of undefined"
ListenerTypeError == "TypeError"

\* window.location.origin
OwnOrigin == <<"o">>

Origins == {<<"a">>, <<"b">>}
Payloads == {"42", "boom"}
ArgLists == {<<1, 2>>, <<2, 1>>}
DevFunctionNames == {"myFunc", "then"}

\* Key lists google.script.run may enumerate.
HostKeyLists ==
    { <<"withFailureHandler", "withLogger", "withSuccessHandler", "withUserObject">>,
      <<"foo", "withFailureHandler", "withLogger", "withSuccessHandler", "withUserObject">>,
      <<"withSuccessHandler", "foo", "withUserObject", "bar">> }

\* allowedDevelopmentDomains: absent, a string, a function, or something else
NoDomains == [kind |-> "undefined", str |-> <<>>]
AllowLists ==
    { NoDomains,
      [kind |-> "string", str |-> <<"c", " ", "a">>],
      [kind |-> "function", str |-> <<>>],
      [kind |-> "number", str |-> <<>>] }

\* What the configured predicate returns: true for a, the number 1 for b.
PredicateResult(origin) ==
    IF origin = <<"a">> THEN "true"
    ELSE IF origin = <<"b">> THEN "1"
    ELSE "false"

-----------------------------------------------------------------------------
(* checkAllowList *)

RECURSIVE SplitFrom(_, _, _, _)
SplitFrom(s, i, cur, acc) ==
    IF i > Len(s) THEN Append(acc, cur)
    ELSE IF s[i] = " " THEN SplitFrom(s, i + 1, <<>>, Append(acc, cur))
    ELSE SplitFrom(s, i + 1, Append(cur, s[i]), acc)

\* String.prototype.split(' ')
Split(s) == SplitFrom(s, 1, <<>>, <<>>)

\* checkAllowList written with String.prototype.includes on the whole string
checkAllowList_Includes(allowedDevelopmentDomains, origin) ==
    IF allowedDevelopmentDomains.kind = "string"
    THEN LET str == allowedDevelopmentDomains.str
         IN  \E i \in 1..(Len(str) + 1) :
                /\ i + Len(origin) - 1 <= Len(str)
                /\ \A k \in 1..Len(origin) : str[i + k - 1] = origin[k]
    ELSE IF allowedDevelopmentDomains.kind = "function"
    THEN PredicateResult(origin) = "true"
    ELSE FALSE

\* checkAllowList taking any truthy return value of the predicate as consent
checkAllowList_Truthy(allowedDevelopmentDomains, origin) ==
    IF allowedDevelopmentDomains.kind = "string"
    THEN LET permitted == Split(allowedDevelopmentDomains.str)
         IN  \E k \in 1..Len(permitted) : permitted[k] = origin
    ELSE IF allowedDevelopmentDomains.kind = "function"
    THEN PredicateResult(origin) \notin {"false", "undefined", "0"}
    ELSE FALSE

checkAllowList(allowedDevelopmentDomains, origin) ==
    IF allowedDevelopmentDomains.kind = "string"
    THEN LET permitted == Split(allowedDevelopmentDomains.str)
         IN  \E k \in 1..Len(permitted) : permitted[k] = origin
    ELSE IF allowedDevelopmentDomains.kind = "function"
    THEN PredicateResult(origin) = "true"
    ELSE FALSE

-----------------------------------------------------------------------------
(* Promises *)

PendingPromise == [state |-> "pending", value |-> "undefined"]

\* the resolve function of a Promise: a no-op once the Promise is settled
PromiseResolve(p, v) ==
    IF p.state = "pending" THEN [state |-> "fulfilled", value |-> v] ELSE p

\* the reject function of a Promise: a no-op once the Promise is settled
PromiseReject(p, v) ==
    IF p.state = "pending" THEN [state |-> "rejected", value |-> v] ELSE p

NoHandler == [kind |-> "none", promise |-> 0]
ResolveOf(p) == [kind |-> "resolve", promise |-> p]
RejectOf(p) == [kind |-> "reject", promise |-> p]

\* calling a stored resolve/reject function with one argument
ApplyHandler(h, v, proms) ==
    IF h.kind = "resolve"
    THEN [proms EXCEPT ![h.promise] = PromiseResolve(@, v)]
    ELSE IF h.kind = "reject"
    THEN [proms EXCEPT ![h.promise] = PromiseReject(@, v)]
    ELSE proms

-----------------------------------------------------------------------------
(* Messages delivered to window *)

\* ids a message may carry: 0 is a uuid no call was given, the others are the
\* uuids in order of issue
UnknownId == 0

NoMsg == [origin |-> <<>>, shape |-> "none", type |-> "undefined", id |-> UnknownId,
          status |-> "undefined", response |-> "undefined"]

MessageEvents ==
    [origin : Origins, shape : {"object"}, type : {"RESPONSE"}, id : 1..MaxIds,
     status : {"OK", "ERROR"}, response : Payloads]
    \cup
    [origin : Origins, shape : {"object"}, type : {"RESPONSE"}, id : {UnknownId},
     status : {"OK"}, response : {"42"}]
    \cup
    [origin : Origins, shape : {"object"}, type : {"REQUEST"}, id : 1..MaxIds,
     status : {"OK"}, response : {"42"}]
    \cup
    [origin : Origins, shape : {"null"}, type : {"undefined"}, id : {UnknownId},
     status : {"undefined"}, response : {"undefined"}]

-----------------------------------------------------------------------------
(* The 'message' listener of one dev-mode Server *)

Outcome(proms, err) == [promises |-> proms, error |-> err]

\* the listener without its origin check
receiveMessageHandler_NoOriginCheck(config, event, store, proms) ==
    IF event.shape = "null" THEN Outcome(proms, ListenerTypeError)
    ELSE IF event.type # "RESPONSE" THEN Outcome(proms, "none")
    ELSE IF event.id \notin DOMAIN store
         THEN Outcome(proms, ListenerTypeError)
    ELSE LET entry == store[event.id]
             afterReject == IF event.status = "ERROR"
                            THEN ApplyHandler(entry.reject, event.response, proms)
                            ELSE proms
         IN  Outcome(ApplyHandler(entry.resolve, event.response, afterReject), "none")

\* the listener calling resolve before the status test
receiveMessageHandler_ResolveFirst(config, event, store, proms) ==
    LET allowOrigin == checkAllowList(config, event.origin) IN
    IF ~allowOrigin THEN Outcome(proms, "none")
    ELSE IF event.shape = "null" THEN Outcome(proms, ListenerTypeError)
    ELSE IF event.type # "RESPONSE" THEN Outcome(proms, "none")
    ELSE IF event.id \notin DOMAIN store
         THEN Outcome(proms, ListenerTypeError)
    ELSE LET entry == store[event.id]
             afterResolve == ApplyHandler(entry.resolve, event.response, proms)
         IN  Outcome(IF event.status = "ERROR"
                     THEN ApplyHandler(entry.reject, event.response, afterResolve)
                     ELSE afterResolve, "none")

\* the listener keeping one pending pair: it settles the entry added last
receiveMessageHandler_LastEntry(config, event, store, proms) ==
    LET allowOrigin == checkAllowList(config, event.origin) IN
    IF ~allowOrigin THEN Outcome(proms, "none")
    ELSE IF event.shape = "null" THEN Outcome(proms, ListenerTypeError)
    ELSE IF event.type # "RESPONSE" THEN Outcome(proms, "none")
    ELSE IF event.id \notin DOMAIN store
         THEN Outcome(proms, ListenerTypeError)
    ELSE LET last == CHOOSE i \in DOMAIN store : \A j \in DOMAIN store : j <= i
             entry == store[last]
             afterReject == IF event.status = "ERROR"
                            THEN ApplyHandler(entry.reject, event.response, proms)
                            ELSE proms
         IN  Outcome(ApplyHandler(entry.resolve, event.response, afterReject), "none")

receiveMessageHandler(config, event, store, proms) ==
    LET allowOrigin == checkAllowList(config, event.origin) IN
    IF ~allowOrigin THEN Outcome(proms, "none")
    ELSE IF event.shape = "null" THEN Outcome(proms, ListenerTypeError)
    ELSE IF event.type # "RESPONSE" THEN Outcome(proms, "none")
    ELSE IF event.id \notin DOMAIN store
         \* destructuring undefined
         THEN Outcome(proms, ListenerTypeError)
    ELSE LET entry == store[event.id]
             afterReject == IF event.status = "ERROR"
                            THEN ApplyHandler(entry.reject, event.response, proms)
                            ELSE proms
         IN  Outcome(ApplyHandler(entry.resolve, event.response, afterReject), "none")

\* window dispatches the event to every registered listener in order; an
\* exception in one listener is reported and the next listener still runs
RECURSIVE DispatchFrom(_, _, _, _)
DispatchFrom(k, event, proms, errs) ==
    IF k > Len(listeners) THEN [promises |-> proms, errors |-> errs]
    ELSE LET out == receiveMessageHandler(servers[listeners[k]].config, event, gasStore, proms)
         IN  DispatchFrom(k + 1, event, out.promises,
                          IF out.error = "none" THEN errs ELSE Append(errs, out.error))

-----------------------------------------------------------------------------
(* Construction *)

\* the reduce with the ternary's branches exchanged
RECURSIVE ReduceKeys_Inverted(_, _, _)
ReduceKeys_Inverted(keys, k, acc) ==
    IF k > Len(keys) THEN acc
    ELSE ReduceKeys_Inverted(keys, k + 1,
            IF \E r \in 1..Len(ignoredFunctionNames) : ignoredFunctionNames[r] = keys[k]
            THEN acc \cup {keys[k]}
            ELSE acc)

\* the reduce over Object.keys(google.script.run): the names that get a wrapper
RECURSIVE ReduceKeys(_, _, _)
ReduceKeys(keys, k, acc) ==
    IF k > Len(keys) THEN acc
    ELSE ReduceKeys(keys, k + 1,
            IF \E r \in 1..Len(ignoredFunctionNames) : ignoredFunctionNames[r] = keys[k]
            THEN acc
            ELSE acc \cup {keys[k]})

\* mode selection that looks at the development flag before the host
EnumerationError_DevFirst ==
    IF nodeEnv = "development" \/ host = "undeclared" THEN GoogleNotDefined
    ELSE IF host = "noScript" THEN ScriptTypeError
    ELSE "none"

\* what evaluating Object.keys(google.script.run) throws, "none" if nothing
EnumerationError ==
    IF host = "undeclared" THEN GoogleNotDefined
    ELSE IF host = "noScript" THEN ScriptTypeError
    ELSE "none"

\* operations performed so far that count against MaxOps
Work == Len(servers) + uuidCount + Len(posted) + Len(hostCalls)

Event(op, ref, msg, fn, args) ==
    [op |-> op, ref |-> ref, msg |-> msg, fn |-> fn, args |-> args]

AllowIdle == [domains |-> <<>>, origin |-> <<>>, result |-> FALSE, done |-> FALSE]

Init ==
    /\ host \in {"undeclared", "noScript", "present"}
    /\ hostKeys \in (IF host = "present" THEN HostKeyLists ELSE {<<>>})
    /\ nodeEnv \in {"development", "production", "undeclared"}
    /\ servers = <<>>
    /\ gasStoreSet = FALSE
    /\ gasStore = <<>>
    /\ listeners = <<>>
    /\ promises = <<>>
    /\ uuidCount = 0
    /\ callables = {}
    /\ posted = <<>>
    /\ hostCalls = <<>>
    /\ lastEvent = Event("Init", 0, NoMsg, "", <<>>)
    /\ lastThrow = <<>>
    /\ allowCheck = AllowIdle

\* new Server(config)
Construct(config) ==
    /\ Len(servers) < MaxServers
    /\ Work < MaxOps
    /\ lastEvent' = Event("Construct", Len(servers) + 1, NoMsg, "", <<>>)
    /\ UNCHANGED <<host, hostKeys, nodeEnv, promises, uuidCount, callables,
                   posted, hostCalls, allowCheck>>
    /\ IF EnumerationError = "none"
       THEN /\ servers' = Append(servers, [mode |-> "prod", config |-> config,
                                          functions |-> ReduceKeys(hostKeys, 1, {})])
            /\ lastThrow' = <<>>
            /\ UNCHANGED <<gasStoreSet, gasStore, listeners>>
       ELSE IF EnumerationError = GoogleNotDefined /\ nodeEnv = "undeclared"
       \* evaluating process?.env inside the catch block throws
       THEN /\ lastThrow' = <<ProcessNotDefined>>
            /\ UNCHANGED <<servers, gasStoreSet, gasStore, listeners>>
       ELSE IF EnumerationError = GoogleNotDefined /\ nodeEnv = "development"
       THEN /\ servers' = Append(servers, [mode |-> "dev", config |-> config,
                                          functions |-> {}])
            /\ gasStoreSet' = TRUE
            /\ gasStore' = <<>>
            /\ listeners' = Append(listeners, Len(servers) + 1)
            /\ lastThrow' = <<>>
       \* the catch block ends without rethrowing
       ELSE /\ servers' = Append(servers, [mode |-> "none", config |-> config,
                                          functions |-> {}])
            /\ lastThrow' = <<>>
            /\ UNCHANGED <<gasStoreSet, gasStore, listeners>>

-----------------------------------------------------------------------------
(* The development bridge *)

\* the Proxy's get trap: reading serverFunctions[functionName] on a dev-mode Server
Get(s, functionName) ==
    /\ s \in 1..Len(servers)
    /\ servers[s].mode = "dev"
    /\ uuidCount < MaxIds
    /\ Work < MaxOps
    /\ LET id == uuidCount + 1
           p == Len(promises) + 1
       IN  /\ uuidCount' = id
           /\ promises' = Append(promises, PendingPromise)
           /\ gasStore' = (id :> [resolve |-> ResolveOf(p), reject |-> RejectOf(p)]) @@ gasStore
           /\ callables' = callables \cup
                 {[id |-> id, functionName |-> functionName, promise |-> p, server |-> s]}
           /\ lastEvent' = Event("Get", id, NoMsg, functionName, <<>>)
    /\ lastThrow' = <<>>
    /\ UNCHANGED <<host, hostKeys, nodeEnv, servers, gasStoreSet, listeners,
                   posted, hostCalls, allowCheck>>

\* the message the returned function posts
RequestMessage(c, args) ==
    [type |-> "REQUEST", id |-> c.id, functionName |-> c.functionName,
     args |-> args, targetOrigin |-> OwnOrigin]

\* the function the get trap returned when it issued id
CallableOf(id) == CHOOSE c \in callables : c.id = id

\* calling a function the get trap returned
Invoke(id, args) ==
    /\ id \in {c.id : c \in callables}
    /\ Len(posted) < MaxPosts
    /\ Work < MaxOps
    /\ posted' = Append(posted, RequestMessage(CallableOf(id), args))
    /\ lastEvent' = Event("Invoke", id, NoMsg, CallableOf(id).functionName, args)
    /\ lastThrow' = <<>>
    /\ UNCHANGED <<host, hostKeys, nodeEnv, servers, gasStoreSet, gasStore, listeners,
                   promises, uuidCount, callables, hostCalls, allowCheck>>

\* ids that have left the page in a REQUEST; a uuid is not known to any
\* sender before that
PostedIds == {posted[k].id : k \in 1..Len(posted)}

\* a 'message' event arrives at window
Deliver(event) ==
    /\ Len(listeners) > 0
    /\ event.id \in PostedIds \cup {UnknownId}
    /\ LET out == DispatchFrom(1, event, promises, <<>>)
       IN  /\ promises' = out.promises
           /\ lastThrow' = out.errors
    /\ lastEvent' = Event("Deliver", 0, event, "", <<>>)
    /\ UNCHANGED <<host, hostKeys, nodeEnv, servers, gasStoreSet, gasStore, listeners,
                   uuidCount, callables, posted, hostCalls, allowCheck>>

-----------------------------------------------------------------------------
(* The production adapter *)

\* google.script.run and its chaining modifiers
NewRunner == [success |-> NoHandler, failure |-> NoHandler]
withSuccessHandler(runner, h) == [runner EXCEPT !.success = h]
withFailureHandler(runner, h) == [runner EXCEPT !.failure = h]

\* the executor with resolve and reject handed to the wrong modifiers
WrapperCall_Swapped(functionName, args, p) ==
    [functionName |-> functionName, args |-> args, done |-> FALSE,
     runner |-> withFailureHandler(withSuccessHandler(NewRunner, RejectOf(p)), ResolveOf(p))]

\* the executor of the wrapper's Promise
WrapperCall(functionName, args, p) ==
    [functionName |-> functionName, args |-> args, done |-> FALSE,
     runner |-> withFailureHandler(withSuccessHandler(NewRunner, ResolveOf(p)), RejectOf(p))]

\* calling serverFunctions[functionName](...args) on a production Server
Call(s, functionName, args) ==
    /\ s \in 1..Len(servers)
    /\ servers[s].mode = "prod"
    /\ functionName \in servers[s].functions
    /\ Len(hostCalls) < MaxHostCalls
    /\ Work < MaxOps
    /\ LET p == Len(promises) + 1
       IN  /\ promises' = Append(promises, PendingPromise)
           /\ hostCalls' = Append(hostCalls, WrapperCall(functionName, args, p))
           /\ lastEvent' = Event("Call", p, NoMsg, functionName, args)
    /\ lastThrow' = <<>>
    /\ UNCHANGED <<host, hostKeys, nodeEnv, servers, gasStoreSet, gasStore, listeners,
                   uuidCount, callables, posted, allowCheck>>

\* the host finishes a call and runs its success handler with the returned value
HostSucceed(c, v) ==
    /\ c \in 1..Len(hostCalls)
    /\ ~hostCalls[c].done
    /\ promises' = ApplyHandler(hostCalls[c].runner.success, v, promises)
    /\ hostCalls' = [hostCalls EXCEPT ![c].done = TRUE]
    /\ lastEvent' = Event("HostSucceed", c, [NoMsg EXCEPT !.response = v], "", <<>>)
    /\ lastThrow' = <<>>
    /\ UNCHANGED <<host, hostKeys, nodeEnv, servers, gasStoreSet, gasStore, listeners,
                   uuidCount, callables, posted, allowCheck>>

\* the host finishes a call and runs its failure handler with the error
HostFail(c, v) ==
    /\ c \in 1..Len(hostCalls)
    /\ ~hostCalls[c].done
    /\ promises' = ApplyHandler(hostCalls[c].runner.failure, v, promises)
    /\ hostCalls' = [hostCalls EXCEPT ![c].done = TRUE]
    /\ lastEvent' = Event("HostFail", c, [NoMsg EXCEPT !.response = v], "", <<>>)
    /\ lastThrow' = <<>>
    /\ UNCHANGED <<host, hostKeys, nodeEnv, servers, gasStoreSet, gasStore, listeners,
                   uuidCount, callables, posted, allowCheck>>

HostFunctionNames == {"foo", "bar"}

Next ==
    \/ \E config \in AllowLists : Construct(config)
    \/ \E s \in 1..MaxServers, f \in DevFunctionNames : Get(s, f)
    \/ \E id \in 1..MaxIds, args \in ArgLists : Invoke(id, args)
    \/ \E event \in MessageEvents : Deliver(event)
    \/ \E s \in 1..MaxServers, f \in HostFunctionNames, args \in ArgLists : Call(s, f, args)
    \/ \E c \in 1..MaxHostCalls, v \in Payloads : HostSucceed(c, v)
    \/ \E c \in 1..MaxHostCalls, v \in Payloads : HostFail(c, v)

Spec == Init /\ [][Next]_vars

-----------------------------------------------------------------------------
(* A page where google is missing and NODE_ENV is development, with one Server *)

InitDev == Init /\ host = "undeclared" /\ nodeEnv = "development"

\* new Server(config), once
ConstructOnce(config) ==
    /\ Len(servers) = 0
    /\ Construct(config)

NextSingle ==
    \/ \E config \in AllowLists : ConstructOnce(config)
    \/ \E s \in 1..MaxServers, f \in DevFunctionNames : Get(s, f)
    \/ \E id \in 1..MaxIds, args \in ArgLists : Invoke(id, args)
    \/ \E event \in MessageEvents : Deliver(event)

SpecSingle == InitDev /\ [][NextSingle]_vars

-----------------------------------------------------------------------------
(* The same page with any number of Servers *)

NextDev ==
    \/ \E config \in AllowLists : Construct(config)
    \/ \E s \in 1..MaxServers, f \in DevFunctionNames : Get(s, f)
    \/ \E id \in 1..MaxIds, args \in ArgLists : Invoke(id, args)
    \/ \E event \in MessageEvents : Deliver(event)

SpecDev == InitDev /\ [][NextDev]_vars

-----------------------------------------------------------------------------
(* A page served by Apps Script: google.script.run is present *)

InitProd == Init /\ host = "present"

NextProd ==
    \/ \E config \in AllowLists : Construct(config)
    \/ \E s \in 1..MaxServers, f \in HostFunctionNames, args \in ArgLists : Call(s, f, args)
    \/ \E c \in 1..MaxHostCalls, v \in Payloads : HostSucceed(c, v)
    \/ \E c \in 1..MaxHostCalls, v \in Payloads : HostFail(c, v)

SpecProd == InitProd /\ [][NextProd]_vars

-----------------------------------------------------------------------------
(* checkAllowList on its own, over every short string allow-list and origin *)

Alphabet == {"a", "A", " "}
StringsUpTo(n) == UNION {[1..k -> Alphabet] : k \in 0..n}

InitAllow ==
    /\ host = "undeclared"
    /\ hostKeys = <<>>
    /\ nodeEnv = "development"
    /\ servers = <<>>
    /\ gasStoreSet = FALSE
    /\ gasStore = <<>>
    /\ listeners = <<>>
    /\ promises = <<>>
    /\ uuidCount = 0
    /\ callables = {}
    /\ posted = <<>>
    /\ hostCalls = <<>>
    /\ lastEvent = Event("Init", 0, NoMsg, "", <<>>)
    /\ lastThrow = <<>>
    /\ allowCheck \in [domains : StringsUpTo(MaxStrLen), origin : StringsUpTo(MaxOriginLen),
                       result : {FALSE}, done : {FALSE}]

CheckString ==
    /\ ~allowCheck.done
    /\ allowCheck' = [allowCheck EXCEPT
          !.result = checkAllowList([kind |-> "string", str |-> allowCheck.domains],
                                    allowCheck.origin),
          !.done = TRUE]
    /\ UNCHANGED <<host, hostKeys, nodeEnv, servers, gasStoreSet, gasStore, listeners,
                   promises, uuidCount, callables, posted, hostCalls, lastEvent, lastThrow>>

NextAllow == CheckString

SpecAllow == InitAllow /\ [][NextAllow]_vars

-----------------------------------------------------------------------------
(* Properties *)

\* the allow-list of Server s accepts the origin
Allows(s, origin) == checkAllowList(servers[s].config, origin)

\* the last operation was the delivery of a message event
Delivered == lastEvent.op = "Deliver"

\* C1: a RESPONSE from an allowed origin whose id is not a key of the
\* correlation table does not throw out of the listener and settles no Promise.
C1_UnknownIdIgnored ==
    [][ ( /\ lastEvent'.op = "Deliver"
          /\ lastEvent'.msg.type = "RESPONSE"
          /\ lastEvent'.msg.id \notin DOMAIN gasStore
          /\ \E k \in 1..Len(listeners) : Allows(listeners[k], lastEvent'.msg.origin) )
        => (lastThrow' = <<>> /\ promises' = promises) ]_vars

\* C2: the constructor falls back to the dev bridge only when enumeration
\* throws "google is not defined" in development; when enumeration throws in
\* any other case the same error leaves the constructor and no Server results.
C2_OtherErrorsPropagate ==
    [][ (lastEvent'.op = "Construct" /\ EnumerationError # "none")
        => IF EnumerationError = GoogleNotDefined /\ nodeEnv = "development"
           THEN /\ Len(servers') = Len(servers) + 1
                /\ servers'[Len(servers')].mode = "dev"
           ELSE /\ servers' = servers
                /\ lastThrow' = <<EnumerationError>> ]_vars

\* C3: every call has its own correlation identifier: no two posted REQUEST
\* messages carry the same id.
C3_FreshIdPerCall ==
    \A i, j \in 1..Len(posted) : i # j => posted[i].id # posted[j].id

\* C4: a RESPONSE from an origin its Server allows, carrying the id of an
\* invoked call whose Promise is pending, fulfils that Promise with the payload
\* when status is OK and rejects it with the payload when status is ERROR.
C4_ResponseSettles ==
    [][ \A c \in callables :
          ( /\ lastEvent'.op = "Deliver"
            /\ lastEvent'.msg.type = "RESPONSE"
            /\ lastEvent'.msg.id = c.id
            /\ \E k \in 1..Len(posted) : posted[k].id = c.id
            /\ promises[c.promise].state = "pending"
            /\ Allows(c.server, lastEvent'.msg.origin) )
          => promises'[c.promise] =
                [state |-> IF lastEvent'.msg.status = "ERROR" THEN "rejected" ELSE "fulfilled",
                 value |-> lastEvent'.msg.response] ]_vars

\* C5: an invocation posts exactly one REQUEST message with the call's id,
\* function name and arguments to the page's own origin and returns a pending
\* Promise; a Promise stops being pending only when a RESPONSE with its id is
\* delivered from an origin some registered listener allows.
C5_PostOnceAndStayPending ==
    [][ /\ lastEvent'.op = "Invoke"
           => \E c \in callables :
                 /\ c.id = lastEvent'.ref
                 /\ posted' = Append(posted,
                       [type |-> "REQUEST", id |-> c.id, functionName |-> lastEvent'.fn,
                        args |-> lastEvent'.args, targetOrigin |-> OwnOrigin])
                 /\ c.functionName = lastEvent'.fn
                 /\ promises'[c.promise].state = "pending"
        /\ \A c \in callables :
              (promises[c.promise].state = "pending" /\ promises'[c.promise].state # "pending")
              => /\ lastEvent'.op = "Deliver"
                 /\ lastEvent'.msg.type = "RESPONSE"
                 /\ lastEvent'.msg.id = c.id
                 /\ \E k \in 1..Len(listeners) : Allows(listeners[k], lastEvent'.msg.origin)
      ]_vars

\* C6: with a single dev-mode Server, a message whose origin fails the
\* allow-list check or whose type is not RESPONSE leaves the correlation table
\* and every Promise as they were.
C6_RejectedMessageIsFrame ==
    [][ ( /\ lastEvent'.op = "Deliver"
          /\ Len(listeners) = 1
          /\ \/ ~Allows(listeners[1], lastEvent'.msg.origin)
             \/ lastEvent'.msg.type # "RESPONSE" )
        => (gasStore' = gasStore /\ promises' = promises) ]_vars

C6_Witness ==
    /\ Delivered
    /\ Len(listeners) = 1
    /\ ~Allows(listeners[1], lastEvent.msg.origin)
    /\ lastEvent.msg.type = "RESPONSE"
    /\ lastEvent.msg.id \in DOMAIN gasStore
    /\ \E c \in callables : c.id = lastEvent.msg.id /\ promises[c.promise].state = "pending"
    /\ servers[listeners[1]].config.kind = "string"

\* C7: a Server whose allowedDevelopmentDomains is absent or is neither a
\* string nor a function accepts no origin, and no Promise it issued is ever
\* settled.
C7_FailClosed ==
    \A c \in callables :
        servers[c.server].config.kind \notin {"string", "function"}
        => /\ \A o \in Origins : ~Allows(c.server, o)
           /\ promises[c.promise].state = "pending"

\* a maximal run of non-space characters of s, or an empty run between two
\* separators (or a separator and an end of s)
IsToken(s, t) ==
    \E i \in 1..(Len(s) + 1) :
        /\ i = 1 \/ s[i - 1] = " "
        /\ i + Len(t) - 1 <= Len(s)
        /\ \A k \in 1..Len(t) : s[i + k - 1] = t[k] /\ t[k] # " "
        /\ i + Len(t) - 1 = Len(s) \/ s[i + Len(t)] = " "

\* C8: with a string allow-list an origin is accepted exactly when it equals
\* one of the tokens between single spaces of the string.
C8_ExactTokenMatch ==
    allowCheck.done => (allowCheck.result <=> IsToken(allowCheck.domains, allowCheck.origin))

C8_Witness ==
    /\ allowCheck.done
    /\ allowCheck.result
    /\ allowCheck.origin = <<"A">>
    /\ allowCheck.domains = <<"a", "A", " ", "A">>

Reserved == {"withFailureHandler", "withLogger", "withSuccessHandler", "withUserObject"}

\* C9: the keys of a production Server's serverFunctions are the host's
\* enumerable names without the four reserved names.
C9_KeysAreHostMinusReserved ==
    \A s \in 1..Len(servers) :
        servers[s].mode = "prod"
        => servers[s].functions = {hostKeys[k] : k \in 1..Len(hostKeys)} \ Reserved

C9_Witness ==
    /\ Len(servers) > 0
    /\ servers[1].mode = "prod"
    /\ servers[1].functions = {"foo", "bar"}
    /\ \E k \in 1..Len(hostKeys) : hostKeys[k] = "withSuccessHandler"

\* C10: a wrapped function calls the named host function once with the
\* caller's arguments in order and returns a pending Promise, which is then
\* fulfilled with the value the host gives the success handler or rejected
\* with the value it gives the failure handler.
C10_PromiseFollowsHost ==
    [][ /\ lastEvent'.op = "Call"
           => /\ Len(hostCalls') = Len(hostCalls) + 1
              /\ hostCalls'[Len(hostCalls')].functionName = lastEvent'.fn
              /\ hostCalls'[Len(hostCalls')].args = lastEvent'.args
              /\ lastEvent'.ref = Len(hostCalls')
              /\ promises'[lastEvent'.ref] = PendingPromise
        /\ lastEvent'.op = "HostSucceed"
           => promises'[lastEvent'.ref] =
                 [state |-> "fulfilled", value |-> lastEvent'.msg.response]
        /\ lastEvent'.op = "HostFail"
           => promises'[lastEvent'.ref] =
                 [state |-> "rejected", value |-> lastEvent'.msg.response]
      ]_vars

C10_Witness ==
    /\ lastEvent.op = "HostFail"
    /\ hostCalls[lastEvent.ref].functionName = "bar"
    /\ hostCalls[lastEvent.ref].args = <<2, 1>>
    /\ promises[lastEvent.ref] = [state |-> "rejected", value |-> "boom"]

\* C11: when google.script.run is present every Server is a production
\* adapter, whatever NODE_ENV is: window.gasStore is never assigned, no
\* 'message' listener is registered and nothing is posted to the parent frame.
C11_HostPresentMeansProduction ==
    host = "present"
    => /\ \A s \in 1..Len(servers) : servers[s].mode = "prod"
       /\ ~gasStoreSet
       /\ gasStore = <<>>
       /\ listeners = <<>>
       /\ posted = <<>>

C11_Witness ==
    /\ host = "present"
    /\ nodeEnv = "development"
    /\ Len(servers) = MaxServers
    /\ Len(hostCalls) > 0

\* the listener of Server s ran the settle step on this event: the origin
\* passed its allow-list, the type was RESPONSE and the id was in the table
Processes(s, event) ==
    /\ Allows(s, event.origin)
    /\ event.type = "RESPONSE"
    /\ event.id \in DOMAIN gasStore

\* what a RESPONSE makes of a pending Promise
Settled(event) ==
    [state |-> IF event.status = "ERROR" THEN "rejected" ELSE "fulfilled",
     value |-> event.response]

\* C12: with a function allow-list a RESPONSE for a pending call is accepted
\* exactly when the predicate returned the boolean true for its origin; a
\* truthy value that is not true (the number 1) is a rejection.
C12_StrictTrue ==
    [][ \A c \in callables :
          ( /\ lastEvent'.op = "Deliver"
            /\ Len(listeners) = 1
            /\ servers[listeners[1]].config.kind = "function"
            /\ lastEvent'.msg.type = "RESPONSE"
            /\ lastEvent'.msg.id = c.id
            /\ c.id \in DOMAIN gasStore
            /\ promises[c.promise].state = "pending" )
          => IF PredicateResult(lastEvent'.msg.origin) = "true"
             THEN promises'[c.promise] = Settled(lastEvent'.msg)
             ELSE promises'[c.promise] = promises[c.promise] ]_vars

C12_Witness ==
    /\ Delivered
    /\ Len(listeners) = 1
    /\ servers[listeners[1]].config.kind = "function"
    /\ PredicateResult(lastEvent.msg.origin) = "1"
    /\ lastEvent.msg.type = "RESPONSE"
    /\ \E c \in callables :
          /\ c.id = lastEvent.msg.id
          /\ c.id \in DOMAIN gasStore
          /\ promises[c.promise].state = "pending"

\* C13: an id that is a key of the correlation table is a key of it in every
\* later state.
C13_NoEviction ==
    [][ DOMAIN gasStore \subseteq DOMAIN gasStore' ]_vars

C15_MalformedDropped ==
    [][ (lastEvent'.op = "Deliver" /\ lastEvent'.msg.shape = "null")
        => (lastThrow' = <<>> /\ promises' = promises) ]_vars

\* C16: a settled Promise never changes again, and an ERROR response that a
\* listener processes for a pending Promise leaves it rejected with the payload
\* although resolve is called after reject.
C16_SettledOnce ==
    [][ \A c \in callables :
          /\ promises[c.promise].state # "pending"
             => promises'[c.promise] = promises[c.promise]
          /\ ( /\ lastEvent'.op = "Deliver"
               /\ lastEvent'.msg.id = c.id
               /\ lastEvent'.msg.status = "ERROR"
               /\ promises[c.promise].state = "pending"
               /\ \E k \in 1..Len(listeners) : Processes(listeners[k], lastEvent'.msg) )
             => promises'[c.promise] =
                   [state |-> "rejected", value |-> lastEvent'.msg.response] ]_vars

C16_Witness ==
    /\ Delivered
    /\ lastEvent.msg.status = "OK"
    /\ lastEvent.msg.response = "42"
    /\ \E k \in 1..Len(listeners) : Processes(listeners[k], lastEvent.msg)
    /\ \E c \in callables :
          /\ c.id = lastEvent.msg.id
          /\ promises[c.promise] = [state |-> "rejected", value |-> "boom"]

\* C17: a message from an origin that a Server's own allow-list rejects
\* settles no Promise that Server issued, whatever other Servers are on the
\* page.
C17_OwnAllowListDecides ==
    [][ lastEvent'.op = "Deliver"
        => \A c \in callables :
              ~Allows(c.server, lastEvent'.msg.origin)
              => promises'[c.promise] = promises[c.promise] ]_vars

====
